---- MODULE Spec2Model ----
(***************************************************************************)
(* Verification model of the Color Lines game (KulkiDlaAdy):               *)
(*   GridVerifier  - line detection            (checkAndFindLines)         *)
(*   GameScene     - path search, selection, move, spawn, game over        *)
(*   Leaderboard   - top-5 score list                                      *)
(* A cell is a record [ball, color]; `ball` tells whether the cell holds a *)
(* ball object, `color` is the colour number or Undefined.                 *)
(***************************************************************************)
EXTENDS Integers, Sequences, FiniteSets, TLC

VARIABLES
    config,        \* GameScene.config / GridVerifier.config
    board,         \* GameScene.board : cell position -> cell
    selectedCell,  \* GameScene.selectedCell (a position or NoCell)
    nextBalls,     \* GameScene.nextBalls
    score,         \* GameScene.score
    gameOver,      \* GameScene.gameOver
    entries,       \* Leaderboard.entries (scores, best first)
    tweens,        \* pending move animations (completion callbacks)
    delayedCalls,  \* pending 300 ms line re-checks
    movesLeft,     \* moves that may still be committed in this behaviour
    placed,        \* number of placeBall calls since the last initializeGame
    call           \* last direct call of a pure function and its result

vars == <<config, board, selectedCell, nextBalls, score, gameOver, entries,
          tweens, delayedCalls, movesLeft, placed, call>>

gameVars == <<config, board, selectedCell, nextBalls, score, gameOver,
              entries, tweens, delayedCalls, movesLeft, placed>>

----------------------------------------------------------------------------
(* Values *)

Undefined == -1
NoCell == <<Undefined, Undefined>>
NoCall == [op |-> "none"]

MinBoardSize == 3
MinLineLength == 3
MAX_ENTRIES == 5
MinBallsPerRound == 1
MaxBallsPerRound == 5
DefaultBoardSize == 9

EmptyCell == [ball |-> FALSE, color |-> Undefined]
Ball(c) == [ball |-> TRUE, color |-> c]

Pos(n) == (0 .. n - 1) \X (0 .. n - 1)

InBoard(n, r, c) == r >= 0 /\ r < n /\ c >= 0 /\ c < n

\* the i-th cell of the row-major scan of an n x n board
RowMajor(n, i) == <<(i - 1) \div n, (i - 1) % n>>

Range(s) == {s[i] : i \in 1 .. Len(s)}

Reverse(s) == [i \in 1 .. Len(s) |-> s[Len(s) + 1 - i]]

Occupied(b) == {p \in DOMAIN b : b[p].ball}

\* the element of a one-element set; Only({F(x) : x \in {e}}) is F(e) with e
\* evaluated once
Only(S) == CHOOSE x \in S : TRUE

----------------------------------------------------------------------------
(* GridVerifier *)

\* JavaScript truthiness of a colour: undefined and 0 are falsy
Truthy(color) == color # Undefined /\ color # 0

RECURSIVE Extend(_, _, _, _, _, _, _)
\* one while loop of checkLine: the cells of colour `color` met from (r,c)
\* stepping by (dr,dc), nearest first; every position inside the board holds
\* a cell, so the loop never breaks on a missing one
Extend(b, n, color, r, c, dr, dc) ==
    IF InBoard(n, r, c) /\ b[<<r, c>>].ball /\ b[<<r, c>>].color = color
    THEN <<<<r, c>>>> \o Extend(b, n, color, r + dr, c + dc, dr, dc)
    ELSE <<>>

\* checkLine extending from the start cell in the positive direction only
checkLineForward(b, n, start, dr, dc) ==
    IF ~b[start].ball \/ ~Truthy(b[start].color)
    THEN <<>>
    ELSE <<start>> \o Extend(b, n, b[start].color, start[1] + dr, start[2] + dc,
                             dr, dc)

checkLine(b, n, start, dr, dc) ==
    IF ~b[start].ball \/ ~Truthy(b[start].color)
    THEN <<>>
    ELSE LET color == b[start].color
             pos == Extend(b, n, color, start[1] + dr, start[2] + dc, dr, dc)
             neg == Extend(b, n, color, start[1] - dr, start[2] - dc, -dr, -dc)
         IN Reverse(neg) \o <<start>> \o pos

Directions == << <<0, 1>>, <<1, 0>>, <<1, 1>>, <<1, -1>> >>

RECURSIVE PushAll(_, _, _)
\* PushUnchecked without the test of the checked set
PushAll(acc, line, i) ==
    IF i > Len(line) THEN acc
    ELSE PushAll([linesToRemove |-> Append(acc.linesToRemove, line[i]),
                  checked |-> acc.checked \cup {line[i]}],
                 line, i + 1)

RECURSIVE PushUnchecked(_, _, _)
\* line.forEach(c => if (!checked.has(c)) { linesToRemove.push(c); checked.add(c) })
PushUnchecked(acc, line, i) ==
    IF i > Len(line) THEN acc
    ELSE IF line[i] \in acc.checked
         THEN PushUnchecked(acc, line, i + 1)
         ELSE PushUnchecked([linesToRemove |-> Append(acc.linesToRemove, line[i]),
                             checked |-> acc.checked \cup {line[i]}],
                            line, i + 1)

RECURSIVE CheckDirectionsShort(_, _, _, _, _, _)
\* CheckDirections accepting lines one cell shorter than minLength
CheckDirectionsShort(acc, b, n, minLength, cell, d) ==
    IF d > Len(Directions) THEN acc
    ELSE LET line == checkLine(b, n, cell, Directions[d][1], Directions[d][2])
             acc2 == IF Len(line) >= minLength - 1
                     THEN PushUnchecked(acc, line, 1)
                     ELSE acc
         IN CheckDirectionsShort(acc2, b, n, minLength, cell, d + 1)

RECURSIVE CheckDirections(_, _, _, _, _, _)
\* the four direction blocks of one outer cell, in source order
CheckDirections(acc, b, n, minLength, cell, d) ==
    IF d > Len(Directions) THEN acc
    ELSE LET line == checkLine(b, n, cell, Directions[d][1], Directions[d][2])
             acc2 == IF Len(line) >= minLength
                     THEN PushUnchecked(acc, line, 1)
                     ELSE acc
         IN CheckDirections(acc2, b, n, minLength, cell, d + 1)

RECURSIVE ScanCellsFirst(_, _, _, _, _)
\* the row/col loops leaving at the first outer cell that found a line
ScanCellsFirst(acc, b, n, minLength, i) ==
    IF i > n * n \/ Len(acc.linesToRemove) > 0 THEN acc
    ELSE LET cell == RowMajor(n, i)
         IN IF ~b[cell].ball \/ cell \in acc.checked
            THEN ScanCellsFirst(acc, b, n, minLength, i + 1)
            ELSE ScanCellsFirst(CheckDirections(acc, b, n, minLength, cell, 1),
                                b, n, minLength, i + 1)

RECURSIVE ScanCells(_, _, _, _, _)
\* the row/col loops of checkAndFindLines
ScanCells(acc, b, n, minLength, i) ==
    IF i > n * n THEN acc
    ELSE LET cell == RowMajor(n, i)
         IN IF ~b[cell].ball \/ cell \in acc.checked
            THEN ScanCells(acc, b, n, minLength, i + 1)
            ELSE ScanCells(CheckDirections(acc, b, n, minLength, cell, 1),
                           b, n, minLength, i + 1)

\* GridVerifier.checkAndFindLines: the list linesToRemove
checkAndFindLines(board0, cfg) ==
    Only({ScanCells([linesToRemove |-> <<>>, checked |-> {}],
                    b, cfg.boardSize, cfg.minLineLength, 1).linesToRemove :
             b \in {board0}})

----------------------------------------------------------------------------
(* GameScene.findPath *)

PathDirections == << <<-1, 0>>, <<1, 0>>, <<0, -1>>, <<0, 1>> >>

RECURSIVE ExpandThroughBalls(_, _, _, _, _, _)
\* Expand without the test that the neighbour is empty
ExpandThroughBalls(st, b, n, current, to, d) ==
    IF d > Len(PathDirections) THEN st
    ELSE LET newRow == current[1] + PathDirections[d][1]
             newCol == current[2] + PathDirections[d][2]
             key == <<newRow, newCol>>
             st2 == IF InBoard(n, newRow, newCol) /\ key \notin st.visited
                    THEN [queue |-> Append(st.queue, key),
                          visited |-> st.visited \cup {key},
                          parent |-> [k \in st.visited \cup {key} |->
                                        IF k = key THEN current ELSE st.parent[k]]]
                    ELSE st
         IN ExpandThroughBalls(st2, b, n, current, to, d + 1)

RECURSIVE Expand(_, _, _, _, _, _)
\* the `for (const [dr, dc] of directions)` loop for the cell `current`
\* st = [queue, visited, parent]
Expand(st, b, n, current, to, d) ==
    IF d > Len(PathDirections) THEN st
    ELSE LET newRow == current[1] + PathDirections[d][1]
             newCol == current[2] + PathDirections[d][2]
             key == <<newRow, newCol>>
             st2 == IF InBoard(n, newRow, newCol) /\ key \notin st.visited
                       /\ (~b[key].ball \/ key = to)
                    THEN [queue |-> Append(st.queue, key),
                          visited |-> st.visited \cup {key},
                          parent |-> [k \in st.visited \cup {key} |->
                                        IF k = key THEN current ELSE st.parent[k]]]
                    ELSE st
         IN Expand(st2, b, n, current, to, d + 1)

RECURSIVE Reconstruct(_, _)
\* walks the parent map back from `node`; the source has parent NoCell (null)
Reconstruct(parent, node) ==
    IF node = NoCell THEN <<>>
    ELSE Append(Reconstruct(parent, parent[node]), node)

RECURSIVE Bfs(_, _, _, _)
Bfs(st, b, n, to) ==
    IF Len(st.queue) = 0 THEN <<>>
    ELSE LET current == Head(st.queue)
             rest == [st EXCEPT !.queue = Tail(st.queue)]
         IN IF current = to
            THEN Reconstruct(st.parent, to)
            ELSE Bfs(Expand(rest, b, n, current, to, 1), b, n, to)

\* GameScene.findPath(from, to) on board b of size n
findPath(b, n, from, to) ==
    Bfs([queue |-> <<from>>, visited |-> {from},
         parent |-> [k \in {from} |-> NoCell]], b, n, to)

----------------------------------------------------------------------------
(* Bounds of the game model *)

\* moves that may be committed in one behaviour of the early game
MaxMoves == 4
\* the same for the game with two colours and for the filling game
MaxColourMoves == 2
MaxFillMoves == 8
MaxPairMoves == 4
\* move animations that may be pending at the same time
MaxTweens == 2
\* 300 ms re-checks that may be pending at the same time
MaxDelayed == 2

IDLE == [active |-> FALSE]
NoTweens == [i \in 1 .. MaxTweens |-> IDLE]
Pending == {i \in 1 .. MaxTweens : tweens[i].active}

----------------------------------------------------------------------------
(* Leaderboard *)

RECURSIVE InsertDescFirst(_, _)
\* InsertDesc placing a new entry before the entries of equal score
InsertDescFirst(sorted, e) ==
    IF sorted = <<>> THEN <<e>>
    ELSE IF Head(sorted).score > e.score
         THEN <<Head(sorted)>> \o InsertDescFirst(Tail(sorted), e)
         ELSE <<e>> \o sorted

RECURSIVE InsertDesc(_, _)
\* position of e in a list sorted by a stable descending sort: behind every
\* entry whose score is not smaller
InsertDesc(sorted, e) ==
    IF sorted = <<>> THEN <<e>>
    ELSE IF Head(sorted).score >= e.score
         THEN <<Head(sorted)>> \o InsertDesc(Tail(sorted), e)
         ELSE <<e>> \o sorted

RECURSIVE SortDesc(_)
\* entries.sort((a, b) => b.score - a.score), a stable sort
SortDesc(list) ==
    IF list = <<>> THEN <<>>
    ELSE InsertDesc(SortDesc(SubSeq(list, 1, Len(list) - 1)), list[Len(list)])

\* Slice keeping one entry more
SliceWide(list, k) == SubSeq(list, 1, IF Len(list) < k + 1 THEN Len(list) ELSE k + 1)

Slice(list, k) == SubSeq(list, 1, IF Len(list) < k THEN Len(list) ELSE k)

\* addScore admitting a score equal to the lowest entry of a full list
addScoreTies(list, sc, date) ==
    IF Len(list) < MAX_ENTRIES \/ sc >= list[Len(list)].score
    THEN [entries |-> Slice(SortDesc(Append(list, [score |-> sc, date |-> date])),
                            MAX_ENTRIES),
          result |-> TRUE]
    ELSE [entries |-> list, result |-> FALSE]

\* Leaderboard.addScore: the new list and the returned flag; `date` stands for
\* the time stamp of the new entry
addScore(list, sc, date) ==
    IF Len(list) < MAX_ENTRIES \/ sc > list[Len(list)].score
    THEN [entries |-> Slice(SortDesc(Append(list, [score |-> sc, date |-> date])),
                            MAX_ENTRIES),
          result |-> TRUE]
    ELSE [entries |-> list, result |-> FALSE]

----------------------------------------------------------------------------
(* GameScene: the steps of the handlers, on a record g of the fields they *)
(* change: board, score, delayedCalls, gameOver, entries, placed, and     *)
(* gone (cells cleared by line removal during the handler), removed (the  *)
(* return value of the last checkAndRemoveLines), regen (generateNextBalls*)
(* was called).                                                           *)

Scene ==
    [board |-> board, score |-> score, delayedCalls |-> delayedCalls,
     gameOver |-> gameOver, entries |-> entries, placed |-> placed,
     gone |-> {}, removed |-> FALSE, regen |-> FALSE]

\* getEmptyCells returning every cell of the board
getEmptyCellsAll(b) == DOMAIN b

getEmptyCells(b) == {p \in DOMAIN b : ~b[p].ball}

\* the queues generateNextBalls can produce
generateNextBalls(cfg) ==
    IF Len(cfg.colors) = 0 THEN {<<>>}
    ELSE [1 .. cfg.ballsPerRound -> Range(cfg.colors)]

handleGameOver(g) ==
    IF g.gameOver THEN g
    ELSE [g EXCEPT !.gameOver = TRUE,
                   !.entries = addScore(g.entries, g.score, Len(g.entries)).entries]

\* RemoveLines scoring ten points for a pass, whatever it removes
RemoveLinesFlat(g, lines0) ==
    IF Len(lines0) > 0
    THEN [g EXCEPT !.board = [p \in DOMAIN g.board |->
                                 IF p \in Range(lines0) /\ g.board[p].ball
                                 THEN EmptyCell ELSE g.board[p]],
                   !.score = g.score + 10,
                   !.delayedCalls = g.delayedCalls + 1,
                   !.gone = g.gone \cup Range(lines0),
                   !.removed = TRUE]
    ELSE [g EXCEPT !.removed = FALSE]

\* the body of checkAndRemoveLines once linesToRemove is known
RemoveLines(g, lines0) ==
    Only({IF Len(linesToRemove) > 0
          THEN [g EXCEPT !.board = [p \in DOMAIN g.board |->
                                       IF p \in Range(linesToRemove) /\ g.board[p].ball
                                       THEN EmptyCell ELSE g.board[p]],
                         !.score = g.score + Len(linesToRemove) * 10,
                         !.delayedCalls = g.delayedCalls + 1,
                         !.gone = g.gone \cup Range(linesToRemove),
                         !.removed = TRUE]
          ELSE [g EXCEPT !.removed = FALSE] : linesToRemove \in {lines0}})

checkAndRemoveLines(g0, cfg) ==
    Only({RemoveLines(g, checkAndFindLines(g.board, cfg)) : g \in {g0}})

placeBall(g, cfg, cell, color) ==
    checkAndRemoveLines([g EXCEPT !.board = [g.board EXCEPT ![cell] = Ball(color)],
                                  !.placed = g.placed + 1], cfg)

RECURSIVE ShufflePrefixes(_, _)
\* Phaser.Utils.Array.Shuffle: the possible first k entries of the shuffled
\* list of the cells S (all of them when S has fewer than k cells)
ShufflePrefixes(S, k) ==
    IF k = 0 \/ S = {} THEN {<<>>}
    ELSE UNION {{<<c>> \o rest : rest \in ShufflePrefixes(S \ {c}, k - 1)} : c \in S}

\* the placement loop placing the whole batch before one line check
PlaceEachBatch(g, cfg, queue, emptyCells, i) ==
    LET n == IF cfg.ballsPerRound < Len(emptyCells) THEN cfg.ballsPerRound
             ELSE Len(emptyCells)
    IN IF n = 0 THEN g
       ELSE checkAndRemoveLines(
                [g EXCEPT !.board = [p \in DOMAIN g.board |->
                                        IF \E k \in 1 .. n : emptyCells[k] = p
                                        THEN Ball(queue[CHOOSE k \in 1 .. n :
                                                            emptyCells[k] = p])
                                        ELSE g.board[p]],
                          !.placed = g.placed + n], cfg)

RECURSIVE PlaceEach(_, _, _, _, _)
\* the placement loop of placeNextBalls over the shuffled empty cells
PlaceEach(g, cfg, queue, emptyCells, i) ==
    IF i > cfg.ballsPerRound \/ i > Len(emptyCells) THEN g
    ELSE PlaceEach(placeBall(g, cfg, emptyCells[i],
                             IF i <= Len(queue) THEN queue[i] ELSE Undefined),
                   cfg, queue, emptyCells, i + 1)

\* placeNextBalls without the test of the number of empty cells
placeNextBallsUnchecked(g, cfg, queue, linesRemoved, emptyCells) ==
    IF linesRemoved THEN g
    ELSE [PlaceEach(g, cfg, queue, emptyCells, 1) EXCEPT !.regen = TRUE]

\* GameScene.placeNextBalls; emptyCells is the shuffled list of empty cells
placeNextBalls(g, cfg, queue, linesRemoved, emptyCells) ==
    IF Cardinality(getEmptyCells(g.board)) < cfg.ballsPerRound
    THEN handleGameOver(g)
    ELSE IF linesRemoved THEN g
         ELSE [PlaceEach(g, cfg, queue, emptyCells, 1) EXCEPT !.regen = TRUE]

\* GameScene.initializeGame for configuration cfg; queue is the result of
\* its generateNextBalls call, emptyCells the shuffled cells of the new board
initializeGame(g, cfg, queue, emptyCells) ==
    placeNextBalls([g EXCEPT !.gameOver = FALSE, !.score = 0, !.placed = 0,
                             !.board = [p \in Pos(cfg.boardSize) |-> EmptyCell]],
                   cfg, queue, FALSE, emptyCells)

\* the completion callback without its test for a full board
gameOverIfFullSkipped(g) == g

\* the end of the completion callback: game over when no cell is empty
gameOverIfFull(g) ==
    IF Cardinality(getEmptyCells(g.board)) = 0 THEN handleGameOver(g) ELSE g

\* marks the pending moves whose line was cleared by a line removal
Hit(tw, gone) ==
    [i \in 1 .. MaxTweens |->
        IF tw[i].active /\ tw[i].formed \in gone THEN [tw[i] EXCEPT !.hit = TRUE]
        ELSE tw[i]]

\* the fields of g become the next state
Adopt(g, cfg) ==
    /\ board' = g.board
    /\ score' = g.score
    /\ delayedCalls' = g.delayedCalls
    /\ g.delayedCalls <= MaxDelayed
    /\ gameOver' = g.gameOver
    /\ entries' = g.entries
    /\ placed' = g.placed
    /\ nextBalls' \in (IF g.regen THEN generateNextBalls(cfg) ELSE {nextBalls})

----------------------------------------------------------------------------
(* GameScene: configurations *)

GameConfig(pal, m, bpr) ==
    [colors |-> pal, minLineLength |-> m, boardSize |-> MinBoardSize,
     ballsPerRound |-> bpr]

\* the stored configurations the games of this model start with, all on the
\* smallest board:
\* the early game: one ball per round, both colour inputs hold the same colour
InitialConfig == GameConfig(<<1, 1>>, MinLineLength, MinBallsPerRound)
\* the game with two colours
ColourConfig == GameConfig(<<1, 2>>, MinLineLength, MinBallsPerRound)
\* the filling game: no line fits the board, so the board fills up
FillConfig == GameConfig(<<1, 1>>, MinBoardSize + 1, MinBallsPerRound)

WithRounds(cfg, bpr) == [cfg EXCEPT !.ballsPerRound = bpr]

\* the filling game with two balls per round
PairConfig == WithRounds(FillConfig, MinBallsPerRound + 1)
\* the early game with two balls per round
RoundConfig == WithRounds(InitialConfig, MinBallsPerRound + 1)
\* the early game with as many balls per round as a line has
TripleConfig == WithRounds(InitialConfig, MinLineLength)
\* the early game on the next larger board
WideConfig == [InitialConfig EXCEPT !.boardSize = MinBoardSize + 1]

Blank ==
    [board |-> <<>>, score |-> 0, delayedCalls |-> 0, gameOver |-> FALSE,
     entries |-> <<>>, placed |-> 0, gone |-> {}, removed |-> FALSE,
     regen |-> FALSE]

\* what initializeGame can leave behind for each configuration:
\* <<board, score, delayed calls scheduled, balls placed>>
Fresh(cfg) ==
    {LET g == initializeGame(Blank, cfg, queue, emptyCells)
     IN <<g.board, g.score, g.delayedCalls, g.placed>> :
        queue \in generateNextBalls(cfg),
        emptyCells \in ShufflePrefixes(Pos(cfg.boardSize), cfg.ballsPerRound)}

\* every configuration a game of this model can have
Configs ==
    {InitialConfig, ColourConfig, FillConfig, PairConfig, RoundConfig,
     TripleConfig, WideConfig}

FreshGames == [cfg \in Configs |-> Fresh(cfg)]

\* initializeGame as a step: one of its results becomes the next state
Restart(cfg) ==
    \E fresh \in FreshGames[cfg] :
        /\ board' = fresh[1]
        /\ score' = fresh[2]
        /\ delayedCalls' = delayedCalls + fresh[3]
        /\ delayedCalls + fresh[3] <= MaxDelayed
        /\ placed' = fresh[4]
        /\ gameOver' = FALSE
        /\ selectedCell' = NoCell
        /\ nextBalls' \in generateNextBalls(cfg)
        /\ UNCHANGED entries

----------------------------------------------------------------------------
(* GameScene: handlers *)

\* the scene after create() and the first 'config-changed' event, which
\* carries the stored configuration cfg and a board size other than the
\* default one
Start(cfg, budget) ==
    /\ config = cfg
    /\ selectedCell = NoCell
    /\ tweens = NoTweens
    /\ movesLeft = budget
    /\ call = NoCall
    /\ gameOver = FALSE
    /\ entries = <<>>
    /\ \E fresh \in FreshGames[cfg] :
          /\ board = fresh[1]
          /\ score = fresh[2]
          /\ delayedCalls = fresh[3]
          /\ placed = fresh[4]
    /\ nextBalls \in generateNextBalls(cfg)

Init == Start(InitialConfig, MaxMoves)

selectCell(cell) ==
    /\ selectedCell' = cell
    /\ UNCHANGED <<config, board, nextBalls, score, gameOver, entries, tweens,
                   delayedCalls, movesLeft, placed, call>>

deselectCell ==
    /\ selectedCell' = NoCell
    /\ UNCHANGED <<config, board, nextBalls, score, gameOver, entries, tweens,
                   delayedCalls, movesLeft, placed, call>>

\* the destination of a move when the relocated ball completes a line there
Formed(b, cfg, to) ==
    IF to \in Range(checkAndFindLines(b, cfg)) THEN to ELSE NoCell

\* a ball that leaves its cell no longer completes the line it had formed
Unformed(tw, from) ==
    [i \in 1 .. MaxTweens |->
        IF tw[i].active /\ tw[i].formed = from
        THEN [tw[i] EXCEPT !.formed = NoCell] ELSE tw[i]]

\* moveBall leaving a copy of the ball on the source cell
moveBallCopying(from, to) ==
    LET path == findPath(board, config.boardSize, from, to)
    IN IF Len(path) = 0
       THEN UNCHANGED vars
       ELSE /\ movesLeft > 0
            /\ board' = [board EXCEPT ![to] = board[from]]
            /\ \E i \in 1 .. MaxTweens :
                  /\ ~tweens[i].active
                  /\ \A j \in 1 .. i - 1 : tweens[j].active
                  /\ tweens' = [Unformed(tweens, from) EXCEPT ![i] =
                        [active |-> TRUE, formed |-> Formed(board', config, to),
                         queue |-> nextBalls, hit |-> FALSE]]
            /\ selectedCell' = NoCell
            /\ movesLeft' = movesLeft - 1
            /\ UNCHANGED <<config, nextBalls, score, gameOver, entries,
                           delayedCalls, placed, call>>

\* moveBall dropping the selection when there is no path
moveBallDeselecting(from, to) ==
    LET path == findPath(board, config.boardSize, from, to)
    IN IF Len(path) = 0
       THEN deselectCell
       ELSE /\ movesLeft > 0
            /\ board' = [board EXCEPT ![from] = EmptyCell, ![to] = board[from]]
            /\ \E i \in 1 .. MaxTweens :
                  /\ ~tweens[i].active
                  /\ \A j \in 1 .. i - 1 : tweens[j].active
                  /\ tweens' = [Unformed(tweens, from) EXCEPT ![i] =
                        [active |-> TRUE, formed |-> Formed(board', config, to),
                         queue |-> nextBalls, hit |-> FALSE]]
            /\ selectedCell' = NoCell
            /\ movesLeft' = movesLeft - 1
            /\ UNCHANGED <<config, nextBalls, score, gameOver, entries,
                           delayedCalls, placed, call>>

\* GameScene.moveBall; the path has at least two cells because from # to, so
\* animateBallAlongPath always starts a tween
moveBall(from, to) ==
    LET path == findPath(board, config.boardSize, from, to)
    IN IF Len(path) = 0
       THEN UNCHANGED vars
       ELSE /\ movesLeft > 0
            /\ board' = [board EXCEPT ![from] = EmptyCell, ![to] = board[from]]
            /\ \E i \in 1 .. MaxTweens :
                  /\ ~tweens[i].active
                  /\ \A j \in 1 .. i - 1 : tweens[j].active
                  /\ tweens' = [Unformed(tweens, from) EXCEPT ![i] =
                        [active |-> TRUE, formed |-> Formed(board', config, to),
                         queue |-> nextBalls, hit |-> FALSE]]
            /\ selectedCell' = NoCell
            /\ movesLeft' = movesLeft - 1
            /\ UNCHANGED <<config, nextBalls, score, gameOver, entries,
                           delayedCalls, placed, call>>

\* handlePointerDown dropping the selection on a click on another ball
handlePointerDownDropping(row, col) ==
    IF gameOver THEN UNCHANGED vars
    ELSE IF InBoard(config.boardSize, row, col)
         THEN LET cell == <<row, col>>
              IN IF selectedCell # NoCell
                 THEN IF cell = selectedCell THEN deselectCell
                      ELSE IF ~board[cell].ball THEN moveBall(selectedCell, cell)
                           ELSE deselectCell
                 ELSE IF board[cell].ball THEN selectCell(cell)
                      ELSE UNCHANGED vars
         ELSE deselectCell

handlePointerDown(row, col) ==
    IF gameOver THEN UNCHANGED vars
    ELSE IF InBoard(config.boardSize, row, col)
         THEN LET cell == <<row, col>>
              IN IF selectedCell # NoCell
                 THEN IF cell = selectedCell THEN deselectCell
                      ELSE IF ~board[cell].ball THEN moveBall(selectedCell, cell)
                           ELSE selectCell(cell)
                 ELSE IF board[cell].ball THEN selectCell(cell)
                      ELSE UNCHANGED vars
         ELSE deselectCell

PointerDown ==
    \E cell \in Pos(config.boardSize) \cup {NoCell} :
        handlePointerDown(cell[1], cell[2])

\* the onComplete callback of moveBall, run when tween i finishes
AnimationComplete(i) ==
    /\ tweens[i].active
    /\ \E g1 \in {checkAndRemoveLines(Scene, config)} :
       \E emptyCells \in ShufflePrefixes(getEmptyCells(g1.board),
                                         config.ballsPerRound) :
       \E g2 \in {placeNextBalls(g1, config, nextBalls, g1.removed, emptyCells)} :
       \E g3 \in {gameOverIfFull(g2)} :
          /\ Adopt(g3, config)
          /\ tweens' = Hit([tweens EXCEPT ![i] = IDLE], g3.gone)
    /\ selectedCell' = NoCell
    /\ UNCHANGED <<config, movesLeft, call>>

\* the delayedCall callback of checkAndRemoveLines
DelayedRecheck ==
    /\ delayedCalls > 0
    /\ \E g1 \in {checkAndRemoveLines([Scene EXCEPT !.delayedCalls = delayedCalls - 1],
                                      config)} :
          /\ Adopt(g1, config)
          /\ tweens' = Hit(tweens, g1.gone)
    /\ UNCHANGED <<config, selectedCell, movesLeft, call>>

\* updateConfig keeping the queue when the board size is unchanged
updateConfigKeeping(newConfig) ==
    /\ config' = newConfig
    /\ IF config.boardSize # newConfig.boardSize
       THEN /\ Restart(newConfig)
            /\ UNCHANGED <<tweens, movesLeft, call>>
       ELSE UNCHANGED <<board, selectedCell, nextBalls, score, gameOver, entries,
                        tweens, delayedCalls, movesLeft, placed, call>>

\* GameScene.updateConfig, on the 'config-changed' event
updateConfig(newConfig) ==
    /\ config' = newConfig
    /\ IF config.boardSize # newConfig.boardSize
       THEN /\ Restart(newConfig)
            /\ UNCHANGED <<tweens, movesLeft, call>>
       ELSE /\ nextBalls' \in generateNextBalls(newConfig)
            /\ UNCHANGED <<board, selectedCell, score, gameOver, entries, tweens,
                           delayedCalls, movesLeft, placed, call>>

\* the panel sends the configuration again
UpdateConfig == updateConfig(config)

\* the panel sends the configuration with one ball per round fewer
LowerBallsPerRound ==
    /\ config.ballsPerRound > MinBallsPerRound
    /\ updateConfig(WithRounds(config, config.ballsPerRound - 1))

\* GameScene.resetGame, on the 'reset-game' event
resetGame ==
    /\ Restart(config)
    /\ UNCHANGED <<config, tweens, movesLeft, call>>

Next ==
    \/ PointerDown
    \/ \E i \in 1 .. MaxTweens : AnimationComplete(i)
    \/ DelayedRecheck
    \/ UpdateConfig
    \/ resetGame

Spec == Init /\ [][Next]_vars

\* the game with two colours
InitColours == Start(ColourConfig, MaxColourMoves)
SpecColours == InitColours /\ [][Next]_vars

\* the filling game; no line fits the board, so no re-check is ever scheduled
InitFill == Start(FillConfig, MaxFillMoves)
NextFill ==
    \/ PointerDown
    \/ \E i \in 1 .. MaxTweens : AnimationComplete(i)
    \/ UpdateConfig
    \/ resetGame
SpecFill == InitFill /\ [][NextFill]_vars

\* one filling game with two balls per round, in which the panel also lowers
\* ballsPerRound
InitPairs == Start(PairConfig, MaxPairMoves)
NextPairs ==
    \/ PointerDown
    \/ \E i \in 1 .. MaxTweens : AnimationComplete(i)
    \/ UpdateConfig
    \/ LowerBallsPerRound
SpecPairs == InitPairs /\ [][NextPairs]_vars

\* the same game played with the board alone: no panel, no reset
NextPlay ==
    \/ PointerDown
    \/ \E i \in 1 .. MaxTweens : AnimationComplete(i)
SpecPlay == InitPairs /\ [][NextPlay]_vars

----------------------------------------------------------------------------
(* Direct calls of the pure functions on arbitrary boards *)

\* most balls on a probe board larger than the smallest board; the smallest
\* board is probed with every occupancy
ProbeBalls == 3
\* 0 is the colour #000000; 1 and 2 stand for two other colour numbers
ProbeColors == {0, 1, 2}
\* <<boardSize, minLineLength>> of the probed configurations
ProbeShapes == {<<MinBoardSize, MinLineLength>>,
                <<MinBoardSize + 1, MinLineLength>>,
                <<MinBoardSize + 1, MinLineLength + 1>>}

\* the n x n board holding exactly the balls of `col` (position -> colour)
BoardOf(n, col) ==
    [p \in Pos(n) |-> IF p \in DOMAIN col THEN Ball(col[p]) ELSE EmptyCell]

ProbeConfig(n, m) ==
    [colors |-> <<0, 1, 2>>, minLineLength |-> m, boardSize |-> n, ballsPerRound |-> 1]

InitLines ==
    /\ \E shape \in ProbeShapes :
          /\ config = ProbeConfig(shape[1], shape[2])
          /\ \E occ \in SUBSET Pos(shape[1]) :
                /\ shape[1] = MinBoardSize \/ Cardinality(occ) <= ProbeBalls
                /\ \E col \in [occ -> ProbeColors] : board = BoardOf(shape[1], col)
    /\ selectedCell = NoCell
    /\ nextBalls = <<>>
    /\ score = 0
    /\ gameOver = FALSE
    /\ entries = <<>>
    /\ tweens = NoTweens
    /\ delayedCalls = 0
    /\ movesLeft = 0
    /\ placed = 0
    /\ call = NoCall

VerifyLines ==
    /\ call = NoCall
    /\ call' = [op |-> "lines", result |-> checkAndFindLines(board, config)]
    /\ UNCHANGED gameVars

SpecLines == InitLines /\ [][VerifyLines]_vars

----------------------------------------------------------------------------
(* Runs, defined from the board alone *)

Axes == {<<0, 1>>, <<1, 0>>, <<1, 1>>, <<1, -1>>}

Step(p, d, k) == <<p[1] + k * d[1], p[2] + k * d[2]>>

Between(k) == IF k >= 0 THEN 0 .. k ELSE k .. 0

\* the cells of the maximal same-colour run through the occupied cell p along d
RunThrough(b, n, p, d) ==
    {Step(p, d, k) : k \in {k \in (1 - n) .. (n - 1) :
        \A j \in Between(k) :
            /\ Step(p, d, j) \in Pos(n)
            /\ b[Step(p, d, j)].ball
            /\ b[Step(p, d, j)].color = b[p].color}}

InQualifyingRun(b, cfg, p) ==
    /\ b[p].ball
    /\ \E d \in Axes :
          Cardinality(RunThrough(b, cfg.boardSize, p, d)) >= cfg.minLineLength

\* C1 (as claimed): every cell of a same-colour run of length >= minLineLength
\* on some axis is in the result of checkAndFindLines, for every colour
\* value including 0.
C1_Complete ==
    call.op = "lines" =>
        \A p \in DOMAIN board :
            InQualifyingRun(board, config, p) => p \in Range(call.result)

\* C2: every cell returned by checkAndFindLines is occupied and lies in a
\* same-colour run of length >= minLineLength on one of the four axes.
C2_Sound ==
    call.op = "lines" =>
        \A i \in 1 .. Len(call.result) :
            InQualifyingRun(board, config, call.result[i])

\* a board with a returned run beside a ball that is not returned
C2_Witness ==
    /\ call.op = "lines"
    /\ Len(call.result) >= config.minLineLength
    /\ \E p \in Occupied(board) : Truthy(board[p].color) /\ p \notin Range(call.result)

----------------------------------------------------------------------------
(* Direct calls of findPath *)

\* boards for findPath: only occupancy matters, every ball has colour 1
InitPath ==
    /\ \/ \E n \in {MinBoardSize, MinBoardSize + 1} :
             /\ config = ProbeConfig(n, MinLineLength)
             /\ \E occ \in SUBSET Pos(n) :
                   /\ n = MinBoardSize \/ Cardinality(occ) <= ProbeBalls
                   /\ board = BoardOf(n, [p \in occ |-> 1])
             /\ \E f \in Pos(n), t \in Pos(n) :
                   call = [op |-> "goal", from |-> f, to |-> t]
       \/ /\ config = ProbeConfig(DefaultBoardSize, MinLineLength)
          /\ board = BoardOf(DefaultBoardSize, [p \in {<<2, 2>>} |-> 1])
          /\ \E t \in Pos(DefaultBoardSize) :
                call = [op |-> "goal", from |-> <<2, 2>>, to |-> t]
    /\ selectedCell = call.from
    /\ nextBalls = <<>>
    /\ score = 0
    /\ gameOver = FALSE
    /\ entries = <<>>
    /\ tweens = NoTweens
    /\ delayedCalls = 0
    /\ movesLeft = 0
    /\ placed = 0

FindPathCall ==
    /\ call.op = "goal"
    /\ call' = [op |-> "path", from |-> call.from, to |-> call.to,
                result |-> findPath(board, config.boardSize, call.from, call.to)]
    /\ UNCHANGED gameVars

SpecPath == InitPath /\ [][FindPathCall]_vars

Adjacent(p, q) ==
    \/ p[1] = q[1] /\ (p[2] = q[2] + 1 \/ q[2] = p[2] + 1)
    \/ p[2] = q[2] /\ (p[1] = q[1] + 1 \/ q[1] = p[1] + 1)

\* cells reached from S by one more step onto an empty cell
Grow(b, S) == S \cup {q \in DOMAIN b : ~b[q].ball /\ \E p \in S : Adjacent(p, q)}

RECURSIVE StepsTo(_, _, _, _)
\* least number of steps over empty cells from the set S to t, counted from k;
\* Undefined when t cannot be reached
StepsTo(b, S, t, k) ==
    IF t \in S THEN k
    ELSE IF Grow(b, S) = S THEN Undefined
         ELSE StepsTo(b, Grow(b, S), t, k + 1)

Distance(b, f, t) == StepsTo(b, {f}, t, 0)

IsRoute(b, f, t, path) ==
    /\ Len(path) >= 1
    /\ path[1] = f
    /\ path[Len(path)] = t
    /\ \A i \in 1 .. Len(path) - 1 : Adjacent(path[i], path[i + 1])
    /\ \A i \in 2 .. Len(path) : ~b[path[i]].ball

\* C3: for an empty destination findPath returns a shortest route over empty
\* cells when the destination is connected to the source, and the empty
\* sequence otherwise; on the 9x9 board that is empty apart from the ball at
\* (2,2) the path to (2,5) is (2,2),(2,3),(2,4),(2,5).
C3_ShortestPath ==
    (call.op = "path" /\ ~board[call.to].ball) =>
        /\ IF Distance(board, call.from, call.to) # Undefined
           THEN /\ IsRoute(board, call.from, call.to, call.result)
                /\ Len(call.result) - 1 = Distance(board, call.from, call.to)
           ELSE call.result = <<>>
        /\ (config.boardSize = DefaultBoardSize /\ call.to = <<2, 5>>) =>
              call.result = << <<2, 2>>, <<2, 3>>, <<2, 4>>, <<2, 5>> >>

Abs(x) == IF x < 0 THEN -x ELSE x

\* a route that has to go round balls
C3_Witness ==
    /\ call.op = "path"
    /\ ~board[call.to].ball
    /\ Len(call.result) - 1 >
          Abs(call.from[1] - call.to[1]) + Abs(call.from[2] - call.to[2])

----------------------------------------------------------------------------
(* The game: claims *)

\* C4: while the resolution of a committed move is pending, every selection
\* and move command is rejected: at most one move is in flight and no ball
\* is selected until the completion callback has run.
C4_ResolvingLock ==
    /\ Cardinality(Pending) <= 1
    /\ Pending # {} => selectedCell = NoCell

\* C5: a committed move whose line was removed before its resolution ended
\* spawns no ball in its round and leaves the next-balls queue unchanged.
C5_NoSpawnAfterRemoval ==
    [][\A i \in 1 .. MaxTweens :
          (tweens[i].active /\ tweens[i].hit /\ AnimationComplete(i))
              => (placed' = placed /\ nextBalls' = nextBalls)]_vars

\* the completion callback of pending move i runs, finds no line and finds
\* `enough` (or not enough) empty cells for a round
SpawnAttempt(i, enough) ==
    /\ tweens[i].active
    /\ (Cardinality(getEmptyCells(board)) >= config.ballsPerRound) = enough
    /\ checkAndFindLines(board, config) = <<>>
    /\ AnimationComplete(i)

\* C6: a committed move whose line check removes nothing, with at least
\* ballsPerRound empty cells, places exactly ballsPerRound balls on distinct
\* empty cells, the i-th with colour i of the queue generated before the
\* move, and then regenerates the queue.
C6_SpawnsQueuedBalls ==
    [][\A i \in 1 .. MaxTweens :
          SpawnAttempt(i, TRUE)
              => /\ placed' = placed + config.ballsPerRound
                 /\ \E emptyCells \in ShufflePrefixes(getEmptyCells(board),
                                                       config.ballsPerRound) :
                       board' = PlaceEach(Scene, config, tweens[i].queue,
                                          emptyCells, 1).board
                 /\ nextBalls' \in generateNextBalls(config)]_vars

\* C7: a spawn attempted with fewer than ballsPerRound empty cells ends the
\* game and places no ball: the board is unchanged.
C7_TooFewEmptyCells ==
    [][\A i \in 1 .. MaxTweens :
          SpawnAttempt(i, FALSE)
              => gameOver' /\ board' = board /\ placed' = placed]_vars

\* the game ended although a cell is empty: check (a) ended it
C7_Witness == gameOver /\ getEmptyCells(board) # {}

\* C8: when a resolution ends with no empty cell the game is over, so no
\* state that accepts commands has a full board.
C8_FullBoardIsOver == getEmptyCells(board) = {} => gameOver

C8_Witness == getEmptyCells(board) = {} /\ gameOver

\* C9: once the game is over, the board occupancy, the score, the selection
\* and the next-balls queue never change (the behaviours checked contain no
\* reset and no change of the board size).
C9_GameOverIsTerminal ==
    [][gameOver => /\ Occupied(board') = Occupied(board)
                   /\ score' = score
                   /\ selectedCell' = selectedCell
                   /\ nextBalls' = nextBalls]_vars

\* C10: a successful move clears the source cell, gives the destination the
\* colour the source had, clears the selection and leaves every other cell,
\* the score and the next-balls queue unchanged.  A step commits a move
\* exactly when it takes one from movesLeft.
C10_MoveFrame ==
    [][\A to \in Pos(config.boardSize) :
          (/\ movesLeft' < movesLeft
           /\ ~gameOver
           /\ selectedCell \in Occupied(board)
           /\ ~board[to].ball
           /\ handlePointerDown(to[1], to[2])
           /\ Len(findPath(board, config.boardSize, selectedCell, to)) > 0)
              => /\ board' = [board EXCEPT
                                ![selectedCell] = EmptyCell,
                                ![to] = Ball(board[selectedCell].color)]
                 /\ Cardinality(Occupied(board')) = Cardinality(Occupied(board))
                 /\ selectedCell' = NoCell
                 /\ score' = score
                 /\ nextBalls' = nextBalls]_vars

\* a move of a ball of the second colour is in flight
C10_Witness ==
    /\ Pending # {}
    /\ movesLeft < MaxColourMoves
    /\ \E p \in Occupied(board) : board[p].color = 2

\* the fields of the game a player can observe, with the pending callbacks
Observed ==
    <<board, selectedCell, nextBalls, score, gameOver, entries, placed,
      tweens, delayedCalls>>

\* C11: with a ball selected, choosing an empty cell to which no path of
\* empty cells exists changes nothing: the selection stays, board, score and
\* queue are unchanged, no ball is spawned, no callback is scheduled and the
\* game does not end.
C11_UnreachableMove ==
    [][\A to \in Pos(config.boardSize) :
          (/\ ~gameOver
           /\ selectedCell \in Occupied(board)
           /\ ~board[to].ball
           /\ Observed' # Observed
           /\ Len(findPath(board, config.boardSize, selectedCell, to)) = 0)
              => ~handlePointerDown(to[1], to[2])]_vars

\* a ball is selected and some empty cell cannot be reached from it
C11_Witness ==
    /\ ~gameOver
    /\ selectedCell \in Occupied(board)
    /\ \E to \in getEmptyCells(board) :
          Len(findPath(board, config.boardSize, selectedCell, to)) = 0

\* C12: a click outside the board changes nothing: board, score, queue,
\* status and the current selection are unchanged, with or without a
\* selected ball.
C12_OutOfBoardNoOp ==
    [][(~gameOver /\ handlePointerDown(Undefined, Undefined))
          => /\ selectedCell' = selectedCell
             /\ board' = board
             /\ score' = score
             /\ nextBalls' = nextBalls
             /\ gameOver' = gameOver]_vars

\* the click on `cell` leaves board, score and queue alone and makes sel the
\* selection
Selects(sel) ==
    /\ selectedCell' = sel
    /\ board' = board
    /\ score' = score
    /\ nextBalls' = nextBalls

\* C13: for an in-bounds cell while the game is not over: with no selection
\* an occupied cell becomes the selection and an empty cell changes nothing;
\* with a selection, the selected cell clears the selection and another
\* occupied cell becomes the selection; board, score and queue are unchanged
\* in all four cases.
C13_SelectionTransitions ==
    [][\A cell \in Pos(config.boardSize) :
          /\ (/\ ~gameOver
              /\ selectedCell = NoCell
              /\ handlePointerDown(cell[1], cell[2]))
                 => Selects(IF board[cell].ball THEN cell ELSE NoCell)
          /\ (/\ ~gameOver
              /\ selectedCell # NoCell
              /\ cell = selectedCell \/ board[cell].ball
              /\ handlePointerDown(cell[1], cell[2]))
                 => Selects(IF cell = selectedCell THEN NoCell ELSE cell)]_vars

\* a ball is selected while another ball is on the board
C13_Witness ==
    /\ ~gameOver
    /\ selectedCell \in Occupied(board)
    /\ Occupied(board) # {selectedCell}

\* the number of cells a step of the game emptied by removing lines
CellsRemoved ==
    Cardinality(Occupied(board)) + (placed' - placed)
        - Cardinality(Occupied(board'))

\* C14: within a game the score never decreases and changes only in a
\* removal pass, by ten times the number of cells the pass removes; only
\* the re-initialisation of the game sets it back to zero.
C14_Score ==
    [][/\ score' < score => (score' = 0 /\ resetGame)
       /\ (score' # score /\ ~resetGame)
             => /\ DelayedRecheck \/ \E i \in 1 .. MaxTweens : AnimationComplete(i)
                /\ score' - score = 10 * CellsRemoved]_vars

\* a removal pass has scored a line
C14_Witness == score >= 10 * MinLineLength

----------------------------------------------------------------------------
(* Direct calls: further claims *)

\* C15: the result of checkAndFindLines contains every coordinate at most
\* once, also when a cell lies on two or more qualifying runs.
C15_NoDuplicates ==
    call.op = "lines" =>
        \A i, j \in 1 .. Len(call.result) :
            call.result[i] = call.result[j] => i = j

\* a returned cell lies on qualifying runs along two axes
C15_Witness ==
    /\ call.op = "lines"
    /\ \E p \in Range(call.result) :
       \E d1, d2 \in Axes :
          /\ d1 # d2
          /\ \A d \in {d1, d2} :
                Cardinality(RunThrough(board, config.boardSize, p, d))
                    >= config.minLineLength

\* C16: findPath(from, to) returns the empty sequence whenever the
\* destination `to` is occupied, for every board and every pair of distinct
\* cells.
C16_OccupiedDestination ==
    (/\ call.op = "path"
     /\ call.from # call.to
     /\ board[call.to].ball)
        => call.result = <<>>

----------------------------------------------------------------------------
(* The leaderboard on its own: addScore and clear called in any order.   *)
(* The call record keeps the last call, the list before it, the scores   *)
(* submitted since the last clear and the number of calls made.          *)

\* calls made to the leaderboard in one behaviour
MaxCalls == 6

\* the scores submitted
ProbeScores == {60, 65, 70, 80, 90, 100}

\* the leaderboard before any score was stored
InitScores ==
    /\ entries = <<>>
    /\ call = [op |-> "leaderboard", log |-> <<>>, n |-> 0]
    /\ config = ProbeConfig(MinBoardSize, MinLineLength)
    /\ board = BoardOf(MinBoardSize, [p \in {} |-> 1])
    /\ selectedCell = NoCell
    /\ nextBalls = <<>>
    /\ score = 0
    /\ gameOver = FALSE
    /\ tweens = NoTweens
    /\ delayedCalls = 0
    /\ movesLeft = 0
    /\ placed = 0

\* Leaderboard.addScore(sc); the call number stands for the date
AddScore(sc) ==
    /\ call.n < MaxCalls
    /\ \E r \in {addScore(entries, sc, call.n)} :
          /\ entries' = r.entries
          /\ call' = [op |-> "addScore", score |-> sc, result |-> r.result,
                      before |-> entries, log |-> Append(call.log, sc),
                      n |-> call.n + 1]
    /\ UNCHANGED <<config, board, selectedCell, nextBalls, score, gameOver,
                   tweens, delayedCalls, movesLeft, placed>>

\* Leaderboard.clear
clear ==
    /\ call.n < MaxCalls
    /\ entries' = <<>>
    /\ call' = [op |-> "clear", log |-> <<>>, n |-> call.n + 1]
    /\ UNCHANGED <<config, board, selectedCell, nextBalls, score, gameOver,
                   tweens, delayedCalls, movesLeft, placed>>

NextScores ==
    \/ \E sc \in ProbeScores : AddScore(sc)
    \/ clear

SpecScores == InitScores /\ [][NextScores]_vars

\* the scores of a list of entries
Scores(list) == [i \in 1 .. Len(list) |-> list[i].score]

\* the entry the last addScore call created
NewEntry == [score |-> call.score, date |-> call.n - 1]

\* the admission test as the claim states it
Admitted ==
    \/ Len(call.before) < MAX_ENTRIES
    \/ call.score > call.before[Len(call.before)].score

\* sorted by score, highest first
Descending(list) ==
    \A i, j \in 1 .. Len(list) : i < j => list[i].score >= list[j].score

\* C17 (as claimed): addScore(s) returns true if and only if the score s is
\* in the stored list afterwards.
C17_TrueIffScoreStored ==
    call.op = "addScore" =>
        (call.result <=> call.score \in Range(Scores(entries)))

\* C17 (amended): addScore(s) returns true if and only if the entry it
\* created is in the stored list afterwards; it does so exactly when the
\* list had fewer than 5 entries or s is greater than its lowest entry; the
\* list is then the old list with the new entry, sorted descending and cut
\* to 5; when it returns false the list is unchanged.
C17_AddScore ==
    call.op = "addScore" =>
        /\ call.result <=> NewEntry \in Range(entries)
        /\ call.result <=> Admitted
        /\ call.result =>
              /\ Descending(entries)
              /\ Len(entries) <= MAX_ENTRIES
              /\ Range(entries) \subseteq Range(call.before) \cup {NewEntry}
              /\ Len(entries) = IF Len(call.before) < MAX_ENTRIES
                                THEN Len(call.before) + 1 ELSE MAX_ENTRIES
              /\ \A e \in Range(call.before) \ Range(entries) :
                    \A k \in Range(entries) : k.score >= e.score
        /\ ~call.result => entries = call.before

\* the scenario: [100, 90, 80, 70, 60] and addScore(65)
C17_Witness ==
    /\ call.op = "addScore"
    /\ Scores(call.before) = <<100, 90, 80, 70, 60>>
    /\ call.score = 65
    /\ call.result
    /\ Scores(entries) = <<100, 90, 80, 70, 65>>

RECURSIVE Largest(_, _)
\* the k largest scores of the sequence log, highest first
Largest(log, k) ==
    IF k = 0 \/ log = <<>> THEN <<>>
    ELSE LET i == CHOOSE i \in 1 .. Len(log) :
                     \A j \in 1 .. Len(log) : log[i] >= log[j]
         IN <<log[i]>> \o Largest(SubSeq(log, 1, i - 1)
                                    \o SubSeq(log, i + 1, Len(log)), k - 1)

\* C18: starting from an empty leaderboard, after every sequence of
\* addScore and clear calls the list holds at most 5 entries, is sorted by
\* score in descending order and holds the (at most) 5 largest scores
\* submitted since the last clear.
C18_TopFive ==
    call.op \in {"leaderboard", "addScore", "clear"} =>
        /\ Len(entries) <= MAX_ENTRIES
        /\ Descending(entries)
        /\ Scores(entries) = Largest(call.log, MAX_ENTRIES)

\* more scores than the list holds were submitted, not all of them equal
C18_Witness ==
    /\ call.op = "addScore"
    /\ Len(call.log) > MAX_ENTRIES
    /\ Cardinality(Range(call.log)) > 1

\* C19: entries of equal score stay in insertion order, a new score equal to
\* a stored one never displaces that entry, and on a full list a score equal
\* to the lowest entry is rejected.
C19_Ties ==
    call.op = "addScore" =>
        /\ \A i, j \in 1 .. Len(entries) :
              (i < j /\ entries[i].score = entries[j].score)
                  => entries[i].date < entries[j].date
        /\ \A e \in Range(call.before) :
              e.score = call.score => e \in Range(entries)
        /\ (/\ Len(call.before) = MAX_ENTRIES
            /\ call.score = call.before[MAX_ENTRIES].score)
              => (~call.result /\ entries = call.before)

\* a score equal to the lowest entry of a full list was submitted
C19_Witness ==
    /\ call.op = "addScore"
    /\ Len(call.before) = MAX_ENTRIES
    /\ call.score = call.before[MAX_ENTRIES].score

----------------------------------------------------------------------------
(* The configuration panel on its own.  Here config is ConfigPanel.config, *)
(* the record handed to onConfigChange; the call record keeps what the    *)
(* panel read: the stored record on loading, the input fields on update.  *)

DefaultMinLineLength == 5
DefaultBallsPerRound == 3
MaxLineLength == 8
MaxBoardSize == 12
MaxColor == 16777215

\* the colours of defaultConfig, as numbers
DefaultColors == <<16711680, 65280, 255, 16776960, 16711935, 65535, 16753920>>

defaultConfig ==
    [colors |-> DefaultColors, minLineLength |-> DefaultMinLineLength,
     boardSize |-> DefaultBoardSize, ballsPerRound |-> DefaultBallsPerRound]

\* a value that is not a number: a string in a stored record, a text
\* without leading digits in an input field
Other == [kind |-> "other"]
Absent == [kind |-> "absent"]
Number(v) == [kind |-> "number", value |-> v]
Array(items) == [kind |-> "array", items |-> items]

\* parseInt(text) || d: NaN and 0 are falsy
ParseIntOr(text, d) ==
    IF text.kind = "number" /\ text.value # 0 THEN text.value ELSE d

\* list.includes(v) ? v : d, for the list lo, lo + 1, ..., hi
IncludedOr(v, lo, hi, d) == IF v \in lo .. hi THEN v ELSE d

\* ConfigPanel.hexToPhaserColor on the values of the colour inputs used here
hexToPhaserColor(hex) ==
    CASE hex = "#000000" -> 0
      [] hex = "#0000ff" -> 255
      [] hex = "#00ff00" -> 65280
      [] hex = "#ff0000" -> 16711680

\* ConfigPanel.updateConfig rejecting the whole update when a field is invalid
ValidateAllOrNothing(old, inputs) ==
    LET minLineLength == ParseIntOr(inputs.minLineLength, DefaultMinLineLength)
        boardSize == ParseIntOr(inputs.boardSize, DefaultBoardSize)
        ballsPerRound == ParseIntOr(inputs.ballsPerRound, DefaultBallsPerRound)
        colors == [i \in 1 .. Len(inputs.colors) |->
                      hexToPhaserColor(inputs.colors[i])]
    IN IF /\ minLineLength \in MinLineLength .. MaxLineLength
          /\ boardSize \in MinBoardSize .. MaxBoardSize
          /\ ballsPerRound \in MinBallsPerRound .. MaxBallsPerRound
       THEN [colors |-> IF Len(colors) >= 2 THEN colors ELSE old.colors,
             minLineLength |-> minLineLength, boardSize |-> boardSize,
             ballsPerRound |-> ballsPerRound]
       ELSE [colors |-> IF Len(colors) >= 2 THEN colors ELSE old.colors,
             minLineLength |-> DefaultMinLineLength,
             boardSize |-> DefaultBoardSize,
             ballsPerRound |-> DefaultBallsPerRound]

\* ConfigPanel.updateConfig: the configuration it builds from the inputs
Validate(old, inputs) ==
    LET minLineLength == ParseIntOr(inputs.minLineLength, DefaultMinLineLength)
        boardSize == ParseIntOr(inputs.boardSize, DefaultBoardSize)
        ballsPerRound == ParseIntOr(inputs.ballsPerRound, DefaultBallsPerRound)
        colors == [i \in 1 .. Len(inputs.colors) |->
                      hexToPhaserColor(inputs.colors[i])]
    IN [colors |-> IF Len(colors) >= 2 THEN colors ELSE old.colors,
        minLineLength |-> IncludedOr(minLineLength, MinLineLength, MaxLineLength,
                                     DefaultMinLineLength),
        boardSize |-> IncludedOr(boardSize, MinBoardSize, MaxBoardSize,
                                 DefaultBoardSize),
        ballsPerRound |-> IncludedOr(ballsPerRound, MinBallsPerRound,
                                     MaxBallsPerRound, DefaultBallsPerRound)]

\* typeof v === 'number' && list.includes(v) ? v : d
StoredOr(v, lo, hi, d) ==
    IF v.kind = "number" /\ v.value \in lo .. hi THEN v.value ELSE d

\* the filter of the stored colours
ValidColors(cs) ==
    SelectSeq(cs, LAMBDA c : c.kind = "number" /\ c.value >= 0 /\ c.value <= MaxColor)

\* ConfigPanel.loadConfig; stored is Absent when the key is not stored and
\* Other when the text is no JSON or the JSON of a value without fields
loadConfig(stored) ==
    IF stored = Absent \/ stored = Other THEN defaultConfig
    ELSE LET filtered == IF /\ stored.colors.kind = "array"
                            /\ Len(stored.colors.items) >= 2
                         THEN [i \in 1 .. Len(ValidColors(stored.colors.items)) |->
                                  ValidColors(stored.colors.items)[i].value]
                         ELSE DefaultColors
         IN [colors |-> IF Len(filtered) < 2 THEN DefaultColors ELSE filtered,
             minLineLength |-> StoredOr(stored.minLineLength, MinLineLength,
                                        MaxLineLength, DefaultMinLineLength),
             boardSize |-> StoredOr(stored.boardSize, MinBoardSize, MaxBoardSize,
                                    DefaultBoardSize),
             ballsPerRound |-> StoredOr(stored.ballsPerRound, MinBallsPerRound,
                                        MaxBallsPerRound, DefaultBallsPerRound)]

\* values tried for the three numeric fields: below, at the ends of and
\* above each range, zero, and a value that is not a number
ProbeLengths == {Other, Number(0), Number(MinLineLength - 1), Number(MinLineLength),
                 Number(MaxLineLength), Number(MaxLineLength + 1)}
ProbeSizes == {Other, Number(MinBoardSize - 1), Number(MinBoardSize),
               Number(MaxBoardSize), Number(MaxBoardSize + 1), Number(99)}
ProbeRounds == {Other, Number(0), Number(MinBallsPerRound),
                Number(MaxBallsPerRound - 1), Number(MaxBallsPerRound),
                Number(MaxBallsPerRound + 1)}

\* the values of the colour inputs; the panel keeps at least two of them
ProbeColorInputs ==
    {<<"#ff0000", "#00ff00">>, <<"#000000", "#0000ff", "#ff0000">>,
     <<"#00ff00", "#00ff00">>}

\* stored colour lists: none, too short, with invalid members, valid
ProbeStoredColors ==
    {Absent, Array(<<Number(255)>>),
     Array(<<Number(255), Other, Number(MaxColor + 1)>>),
     Array(<<Number(0), Number(255), Other>>)}

ProbeStored ==
    {Absent} \cup
    [colors : ProbeStoredColors,
     minLineLength : ProbeLengths \cup {Absent},
     boardSize : ProbeSizes \cup {Absent},
     ballsPerRound : ProbeRounds \cup {Absent}]

\* the panel after its constructor ran loadConfig
InitPanel ==
    /\ \E stored \in ProbeStored :
          /\ call = [op |-> "load", stored |-> stored]
          /\ config = loadConfig(stored)
    /\ board = BoardOf(MinBoardSize, [p \in {} |-> 1])
    /\ selectedCell = NoCell
    /\ nextBalls = <<>>
    /\ score = 0
    /\ gameOver = FALSE
    /\ entries = <<>>
    /\ tweens = NoTweens
    /\ delayedCalls = 0
    /\ movesLeft = 0
    /\ placed = 0

\* ConfigPanel.updateConfig on a change of an input field
PanelUpdate ==
    \E inputs \in [colors : ProbeColorInputs, minLineLength : ProbeLengths,
                    boardSize : ProbeSizes, ballsPerRound : ProbeRounds] :
        /\ config' = Validate(config, inputs)
        /\ call' = [op |-> "update", inputs |-> inputs]
        /\ UNCHANGED <<board, selectedCell, nextBalls, score, gameOver, entries,
                       tweens, delayedCalls, movesLeft, placed>>

SpecPanel == InitPanel /\ [][PanelUpdate]_vars

\* the value is a number of the range lo .. hi
Valid(v, lo, hi) == v.kind = "number" /\ v.value \in lo .. hi

\* field holds the value read when that is valid and its default otherwise
FieldOrDefault(field, v, lo, hi, d) ==
    field = IF Valid(v, lo, hi) THEN v.value ELSE d

\* the three fields of config against the record `read` of values read
PerField(read) ==
    /\ FieldOrDefault(config.minLineLength, read.minLineLength,
                      MinLineLength, MaxLineLength, DefaultMinLineLength)
    /\ FieldOrDefault(config.boardSize, read.boardSize,
                      MinBoardSize, MaxBoardSize, DefaultBoardSize)
    /\ FieldOrDefault(config.ballsPerRound, read.ballsPerRound,
                      MinBallsPerRound, MaxBallsPerRound, DefaultBallsPerRound)

\* C20: minLineLength (3..8), boardSize (3..12) and ballsPerRound (1..5) are
\* validated independently: an invalid value of a field is replaced by that
\* field's default (5, 9, 3) while every valid field of the same update is
\* applied; the adopted configuration always has the three fields in range
\* and at least 2 colours.
C20_PerFieldValidation ==
    /\ call.op = "update" => PerField(call.inputs)
    /\ (call.op = "load" /\ call.stored # Absent) => PerField(call.stored)
    /\ call.op \in {"load", "update"} =>
          /\ config.minLineLength \in MinLineLength .. MaxLineLength
          /\ config.boardSize \in MinBoardSize .. MaxBoardSize
          /\ config.ballsPerRound \in MinBallsPerRound .. MaxBallsPerRound
          /\ Len(config.colors) >= 2

\* an update with an invalid line length and a valid board size other than
\* the default
C20_Witness ==
    /\ call.op = "update"
    /\ ~Valid(call.inputs.minLineLength, MinLineLength, MaxLineLength)
    /\ Valid(call.inputs.boardSize, MinBoardSize, MaxBoardSize)
    /\ config.boardSize # DefaultBoardSize
    /\ config.minLineLength = DefaultMinLineLength

\* C21: an update with an invalid boardSize (e.g. 99) and a valid
\* ballsPerRound (e.g. 4) leaves boardSize at the value it had before the
\* update and sets ballsPerRound to the new value.
C21_InvalidSizeKeepsPrior ==
    [][\A size \in ProbeSizes, rounds \in ProbeRounds :
          (/\ call'.op = "update"
           /\ call'.inputs.boardSize = size
           /\ call'.inputs.ballsPerRound = rounds
           /\ ~Valid(size, MinBoardSize, MaxBoardSize)
           /\ Valid(rounds, MinBallsPerRound, MaxBallsPerRound))
              => /\ config'.boardSize = config.boardSize
                 /\ config'.ballsPerRound = rounds.value]_vars

\* the colour values of the inputs read by an update
InputColors(inputs) == {hexToPhaserColor(inputs.colors[i]) : i \in 1 .. Len(inputs.colors)}

\* C22: a palette is adopted only if it holds at least 2 distinct colour
\* values; otherwise the previous palette is retained unchanged.
C22_DistinctColours ==
    [][(/\ call'.op = "update"
        /\ Cardinality(InputColors(call'.inputs)) < 2)
          => config'.colors = config.colors]_vars

----------------------------------------------------------------------------
(* The persistent store: what the scene and the panel load from it.  Here *)
(* entries holds the value Leaderboard.entries has as a JavaScript value: *)
(* Array(items), or Str(k), a string of k characters.                     *)

Str(k) == [kind |-> "string", length |-> k]
Null == [kind |-> "null"]
Object == [kind |-> "object"]

\* what JSON.parse can make of the stored leaderboard text; Other is a text
\* that is no JSON
ProbeStoredScores ==
    {Absent, Other, Null, Object, Str(MinLineLength), Str(MAX_ENTRIES + 1),
     Array(<<>>), Array(<<Null>>),
     Array(<<[score |-> 10, date |-> 0]>>),
     Array(<<[score |-> 10, date |-> 0], Null>>)}

\* Leaderboard.load: entries after the constructor
load(stored) ==
    CASE stored = Absent -> Array(<<>>)
      [] stored = Other -> Array(<<>>)
      [] stored = Null -> Array(<<>>)
      [] stored = Object -> Array(<<>>)
      [] stored.kind = "string" ->
            Str(IF stored.length < MAX_ENTRIES THEN stored.length ELSE MAX_ENTRIES)
      [] stored.kind = "array" -> Array(Slice(stored.items, MAX_ENTRIES))

\* Leaderboard.addScore on the value es: the new value of entries, the
\* returned flag and whether a TypeError left the method
addScoreStored(es, sc, date) ==
    IF es.kind = "string"
    THEN [entries |-> es, result |-> FALSE, raised |-> es.length < MAX_ENTRIES]
    ELSE LET items == es.items
             pushed == Append(items, [score |-> sc, date |-> date])
         IN IF Len(items) >= MAX_ENTRIES /\ items[Len(items)] = Null
            THEN [entries |-> es, result |-> FALSE, raised |-> TRUE]
            ELSE IF Len(items) < MAX_ENTRIES \/ sc > items[Len(items)].score
                 THEN IF Null \in Range(items)
                      THEN [entries |-> Array(pushed), result |-> FALSE,
                            raised |-> TRUE]
                      ELSE [entries |-> Array(addScore(items, sc, date).entries),
                            result |-> TRUE, raised |-> FALSE]
                 ELSE [entries |-> es, result |-> FALSE, raised |-> FALSE]

\* the scene and the panel after construction, for the stored texts
InitStore ==
    /\ \E stored \in ProbeStoredScores : entries = load(stored)
    /\ \E stored \in {Absent, Other} : config = loadConfig(stored)
    /\ call = [op |-> "load", raised |-> FALSE, n |-> 0]
    /\ board = BoardOf(MinBoardSize, [p \in {} |-> 1])
    /\ selectedCell = NoCell
    /\ nextBalls = <<>>
    /\ score = 0
    /\ gameOver = FALSE
    /\ tweens = NoTweens
    /\ delayedCalls = 0
    /\ movesLeft = 0
    /\ placed = 0

\* Leaderboard.addScore(sc), as handleGameOver calls it
StoreAddScore(sc) ==
    /\ call.n < MaxCalls
    /\ \E r \in {addScoreStored(entries, sc, call.n + 1)} :
          /\ entries' = r.entries
          /\ call' = [op |-> "addScore", raised |-> r.raised, n |-> call.n + 1]
    /\ UNCHANGED <<config, board, selectedCell, nextBalls, score, gameOver,
                   tweens, delayedCalls, movesLeft, placed>>

\* Leaderboard.getTopScores: the spread of a string or of an array
getTopScores ==
    /\ call.n < MaxCalls
    /\ call' = [op |-> "getTopScores", raised |-> FALSE, n |-> call.n + 1]
    /\ UNCHANGED <<config, board, selectedCell, nextBalls, score, gameOver,
                   entries, tweens, delayedCalls, movesLeft, placed>>

NextStore ==
    \/ \E sc \in {0, 10, 20} : StoreAddScore(sc)
    \/ getTopScores

SpecStore == InitStore /\ [][NextStore]_vars

\* C23: for every value the store can return, loading and every later
\* addScore, getTopScores and game-over recording completes without raising,
\* and the leaderboard is empty or a list of valid entries.
C23_StoreTolerated ==
    /\ ~call.raised
    /\ entries.kind = "array"
    /\ Null \notin Range(entries.items)
    /\ config.boardSize \in MinBoardSize .. MaxBoardSize

----------------------------------------------------------------------------
\* C24: in every reachable state in which a selection or move command is
\* accepted (the game is not over), the board holds no same-colour run of
\* length >= the current minLineLength.
C24_NoRunWhileAccepting ==
    ~gameOver => \A p \in DOMAIN board : ~InQualifyingRun(board, config, p)

----------------------------------------------------------------------------
(* The late game: one cell of the smallest board is empty and the balls   *)
(* form no line.                                                          *)

\* moves the player makes in the late game with the most balls per round
MaxLateMoves == 1
\* moves the player makes in the late game with two balls per round
MaxEndMoves == 2

\* the late game with the most balls per round
CrowdedConfig == GameConfig(<<1, 1>>, MinLineLength, MaxBallsPerRound)

\* the boards with one empty cell and no run of MinLineLength balls; the
\* balls have two colours of an earlier palette, and the panel has since
\* sent a configuration whose two colour inputs hold the same colour
LateBoards ==
    {b \in {BoardOf(MinBoardSize, col) :
               col \in UNION {[Pos(MinBoardSize) \ {e} -> {1, 2}] :
                                e \in Pos(MinBoardSize)}} :
        \A p \in DOMAIN b : ~InQualifyingRun(b, InitialConfig, p)}

\* the boards the filling game leaves with one empty cell
EndBoards ==
    {BoardOf(MinBoardSize, [p \in Pos(MinBoardSize) \ {e} |-> 1]) :
        e \in Pos(MinBoardSize)}

Late(cfg, budget, boards) ==
    /\ config = cfg
    /\ board \in boards
    /\ nextBalls \in generateNextBalls(config)
    /\ selectedCell = NoCell
    /\ tweens = NoTweens
    /\ movesLeft = budget
    /\ call = NoCall
    /\ gameOver = FALSE
    /\ entries = <<>>
    /\ score = 0
    /\ delayedCalls = 0
    /\ placed = Cardinality(Occupied(board))

\* the panel sends the configuration with the smallest minLineLength
LowerLineLength ==
    /\ config.minLineLength > MinLineLength
    /\ updateConfig([config EXCEPT !.minLineLength = MinLineLength])

InitLate == Late(CrowdedConfig, MaxLateMoves, LateBoards)
NextLate ==
    \/ PointerDown
    \/ \E i \in 1 .. MaxTweens : AnimationComplete(i)
    \/ DelayedRecheck
SpecLate == InitLate /\ [][NextLate]_vars

\* the late game with two balls per round, in which the panel also lowers
\* minLineLength
InitEnd == Late(PairConfig, MaxEndMoves, EndBoards)
NextEnd ==
    \/ PointerDown
    \/ \E i \in 1 .. MaxTweens : AnimationComplete(i)
    \/ DelayedRecheck
    \/ LowerLineLength
SpecEnd == InitEnd /\ [][NextEnd]_vars

\* C25: a move whose resolution removed at least one cell never ends the
\* game while at least one empty cell remains, even if the number of empty
\* cells is smaller than ballsPerRound.
C25_RemovalNeverEnds ==
    [][\A i \in 1 .. MaxTweens :
          (/\ ~gameOver
           /\ score' > score
           /\ AnimationComplete(i)
           /\ getEmptyCells(board') # {})
              => ~gameOver']_vars

\* C27: once a game is over, the leaderboard holds the one entry recorded
\* for it, whose score is the score the game has then and keeps until it
\* is reset.
C27_RecordedOnce ==
    gameOver => /\ Len(entries) = 1
                /\ entries[1].score = score

----------------------------------------------------------------------------
(* Spawn rounds of two balls *)

\* moves the player makes in the game with two balls per round
MaxRoundMoves == 2

InitRounds == Start(RoundConfig, MaxRoundMoves)
NextRounds ==
    \/ PointerDown
    \/ \E i \in 1 .. MaxTweens : AnimationComplete(i)
    \/ DelayedRecheck
SpecRounds == InitRounds /\ [][NextRounds]_vars

\* board b without the cells of its qualifying runs
Sweep(b, cfg) ==
    [p \in DOMAIN b |-> IF InQualifyingRun(b, cfg, p) THEN EmptyCell ELSE b[p]]

RECURSIVE SpawnEach(_, _, _, _, _, _)
\* the balls k, k + 1, ... of the queue can go one by one to cells of the
\* set `cells`, chosen before the round, each followed by the removal of
\* the runs it completed, so that board b becomes board `after`
SpawnEach(b, cfg, cells, queue, k, after) ==
    IF k > cfg.ballsPerRound \/ cells = {} THEN b = after
    ELSE \E e \in cells :
            SpawnEach(Sweep([b EXCEPT ![e] = Ball(queue[k])], cfg),
                      cfg, cells \ {e}, queue, k + 1, after)

----------------------------------------------------------------------------
(* checkAndFindLines with its loops run in another order *)

RECURSIVE CheckDirectionsIn(_, _, _, _, _, _, _)
\* the four direction blocks of one outer cell, in the order dirs
CheckDirectionsIn(acc, b, n, minLength, cell, dirs, d) ==
    IF d > Len(dirs) THEN acc
    ELSE LET line == checkLine(b, n, cell, dirs[d][1], dirs[d][2])
             acc2 == IF Len(line) >= minLength
                     THEN PushUnchecked(acc, line, 1)
                     ELSE acc
         IN CheckDirectionsIn(acc2, b, n, minLength, cell, dirs, d + 1)

RECURSIVE ScanCellsIn(_, _, _, _, _, _, _)
\* the loop over the outer cells, in the order `order`
ScanCellsIn(acc, b, n, minLength, order, dirs, i) ==
    IF i > Len(order) THEN acc
    ELSE IF ~b[order[i]].ball \/ order[i] \in acc.checked
         THEN ScanCellsIn(acc, b, n, minLength, order, dirs, i + 1)
         ELSE ScanCellsIn(CheckDirectionsIn(acc, b, n, minLength, order[i], dirs, 1),
                          b, n, minLength, order, dirs, i + 1)

\* checkAndFindLines scanning the cells in `order` and the axes in `dirs`
checkAndFindLinesIn(board0, cfg, order, dirs) ==
    ScanCellsIn([linesToRemove |-> <<>>, checked |-> {}], board0,
                cfg.boardSize, cfg.minLineLength, order, dirs, 1).linesToRemove

\* the cells of the n x n board column by column
ColumnMajor(n, i) == <<(i - 1) % n, (i - 1) \div n>>

\* the probed permutations of the row-major order
ScanOrders(n) ==
    LET rows == [i \in 1 .. n * n |-> RowMajor(n, i)]
        columns == [i \in 1 .. n * n |-> ColumnMajor(n, i)]
    IN {rows, Reverse(rows), columns, Reverse(columns)}

\* the probed orders of the four axes
DirectionOrders ==
    {Directions, Reverse(Directions),
     <<Directions[3], Directions[1], Directions[4], Directions[2]>>,
     <<Directions[2], Directions[4], Directions[1], Directions[3]>>}

\* every board of the smallest size with balls of colour 0 and of one other
\* colour, and the boards of the next size with at most ProbeBalls balls
InitOrder ==
    /\ \E n \in {MinBoardSize, MinBoardSize + 1} :
          /\ config = ProbeConfig(n, MinLineLength)
          /\ \E occ \in SUBSET Pos(n) :
                /\ n = MinBoardSize \/ Cardinality(occ) <= ProbeBalls
                /\ \E col \in [occ -> {0, 1}] : board = BoardOf(n, col)
    /\ selectedCell = NoCell
    /\ nextBalls = <<>>
    /\ score = 0
    /\ gameOver = FALSE
    /\ entries = <<>>
    /\ tweens = NoTweens
    /\ delayedCalls = 0
    /\ movesLeft = 0
    /\ placed = 0
    /\ call = NoCall

VerifyOrder ==
    /\ call = NoCall
    /\ \E order \in ScanOrders(config.boardSize), dirs \in DirectionOrders :
          call' = [op |-> "order", order |-> order, dirs |-> dirs,
                   result |-> Range(checkAndFindLinesIn(board, config, order, dirs))]
    /\ UNCHANGED gameVars

SpecOrder == InitOrder /\ [][VerifyOrder]_vars

\* C28: scanning the cells in any permutation of the row-major order and
\* testing the four axes in any order yields the set of cells that the
\* row-major scan with the axes in source order yields.
C28_OrderIndependent ==
    call.op = "order" => call.result = Range(checkAndFindLines(board, config))

\* a scan from the last cell back, axes reversed, found two crossing runs
C28_Witness ==
    /\ call.op = "order"
    /\ call.order[1] = RowMajor(config.boardSize, config.boardSize * config.boardSize)
    /\ call.dirs = Reverse(Directions)
    /\ Cardinality(call.result) > config.boardSize

----------------------------------------------------------------------------
(* Changes of the board size *)

\* moves the player makes in the game whose board size changes
MaxResizeMoves == 1

\* the panel sends a configuration with a smaller board
Resize ==
    \E cfg \in {TripleConfig} :
        /\ cfg.boardSize < config.boardSize
        /\ updateConfig(cfg)

\* the panel sends the configuration with both colour inputs changed and
\* one ball per round fewer
Retune ==
    /\ config.colors # <<2, 2>>
    /\ config.ballsPerRound > MinBallsPerRound
    /\ updateConfig([config EXCEPT !.colors = <<2, 2>>,
                                   !.ballsPerRound = config.ballsPerRound - 1])

InitResize == Start(WideConfig, MaxResizeMoves)
NextResize ==
    \/ PointerDown
    \/ \E i \in 1 .. MaxTweens : AnimationComplete(i)
    \/ DelayedRecheck
    \/ Resize
    \/ Retune
SpecResize == InitResize /\ [][NextResize]_vars

\* C29: a configuration update that changes boardSize leaves a new board of
\* that size without the previous occupants, score 0, no selection and a
\* game that is not over; an update that keeps boardSize leaves the board,
\* the score, the selection and the game-over status as they were.
C29_ResizeReinitialises ==
    [][/\ config'.boardSize # config.boardSize
             => /\ DOMAIN board' = Pos(config'.boardSize)
                /\ Cardinality(Occupied(board')) <= config'.ballsPerRound
                /\ score' = 0
                /\ selectedCell' = NoCell
                /\ ~gameOver'
       /\ (config' # config /\ config'.boardSize = config.boardSize)
             => UNCHANGED <<board, score, selectedCell, gameOver>>]_vars

\* C30: in every state after initialisation the next-balls queue holds
\* exactly the current ballsPerRound entries, each a colour of the current
\* palette.
C30_QueueMatchesConfig ==
    /\ Len(nextBalls) = config.ballsPerRound
    /\ \A i \in 1 .. Len(nextBalls) : nextBalls[i] \in Range(config.colors)

\* the panel has changed the palette and lowered ballsPerRound in a game
\* that was re-initialised and in which a round has been spawned since
C30_Witness ==
    /\ config.boardSize = MinBoardSize
    /\ config.colors = <<2, 2>>
    /\ config.ballsPerRound < MinLineLength
    /\ placed > MinLineLength
    /\ \E p \in Occupied(board) : board[p].color = 2

----------------------------------------------------------------------------
(* Occupancy *)

\* C31: no ball is placed or moved onto an occupied cell: a committed move
\* takes the ball to a cell that was empty, every ball placed by a spawn
\* round adds one to the balls on the board until a removal pass takes it
\* away, also after removals by earlier balls of the round, and a cell has a
\* ball exactly when it has a colour.
C31_OntoEmptyCells ==
    [][/\ \A p \in DOMAIN board' : board'[p].ball <=> board'[p].color # Undefined
       /\ movesLeft' < movesLeft
             => \E to \in getEmptyCells(board) :
                   board' = [board EXCEPT ![selectedCell] = EmptyCell,
                                          ![to] = board[selectedCell]]
       /\ placed' > placed
             => Cardinality(Occupied(board')) + (score' - score) \div 10
                   = Cardinality(Occupied(board)) + (placed' - placed)]_vars

\* two rounds of two balls have been spawned, one of them with a removal
C31_Witness ==
    /\ movesLeft = 0
    /\ placed = 3 * config.ballsPerRound
    /\ config.ballsPerRound > MinBallsPerRound
    /\ score > 0
    /\ Occupied(board) # {}
    /\ Pending = {}

\* C32: in every state in which the game is not over and no move is in
\* flight, some ball on the board has an empty cell it can reach.
C32_NoStuckGame ==
    (~gameOver /\ Pending = {})
        => \E from \in Occupied(board) : \E to \in getEmptyCells(board) :
              Len(findPath(board, config.boardSize, from, to)) > 0

\* moves the player makes in the late game with one ball per round
MaxCornerMoves == 2

\* the late boards whose empty cell is the first cell
CornerBoards == {b \in LateBoards : ~b[RowMajor(MinBoardSize, 1)].ball}

\* the late game with two colours and one ball per round
InitCorner == Late(ColourConfig, MaxCornerMoves, CornerBoards)
NextCorner ==
    \/ PointerDown
    \/ \E i \in 1 .. MaxTweens : AnimationComplete(i)
    \/ DelayedRecheck
SpecCorner == InitCorner /\ [][NextCorner]_vars

\* C33: whenever a selection exists, the selected cell is an occupied cell
\* of the current board.
C33_SelectionOccupied ==
    selectedCell # NoCell => selectedCell \in Occupied(board)

----------------------------------------------------------------------------
(* Resets while callbacks are pending *)

\* moves the player makes in the game that is reset
MaxResetMoves == 2

\* GameScene.resetGame, on the 'reset-game' event; call notes the event and
\* the moves the player had left when it arrived
ResetGame ==
    /\ Restart(config)
    /\ call' = [op |-> "reset", moves |-> movesLeft]
    /\ UNCHANGED <<config, tweens, movesLeft>>

InitReset == Start(InitialConfig, MaxResetMoves)
NextReset ==
    \/ PointerDown
    \/ \E i \in 1 .. MaxTweens : AnimationComplete(i)
    \/ DelayedRecheck
    \/ ResetGame
SpecReset == InitReset /\ [][NextReset]_vars

\* C34: after a reset and until the next reset or the first move the player
\* commits in the new game, no ball is placed on or removed from the new
\* board, and the score and the game-over status of the new game do not
\* change: the callbacks scheduled before the reset leave the new game alone.
C34_ResetIsolates ==
    [][(/\ call.op = "reset"
        /\ ~ResetGame
        /\ movesLeft = call.moves
        /\ movesLeft' = movesLeft)
          => UNCHANGED <<board, score, gameOver, placed>>]_vars

----------------------------------------------------------------------------
(* initializeGame under each configuration *)

\* the panel sends another of the configurations
Reconfigure ==
    \E cfg \in Configs \ {config} : updateConfig(cfg)

\* the scene starts on the larger board and the player commits no move
InitFresh == Start(WideConfig, 0)
NextFresh ==
    \/ PointerDown
    \/ DelayedRecheck
    \/ Reconfigure
    \/ ResetGame
SpecFresh == InitFresh /\ [][NextFresh]_vars

\* C35: immediately after initializeGame completes, on a reset or a change
\* of the board size, the score is 0, the game is not over, nothing is
\* selected and the board holds exactly ballsPerRound balls.
C35_FreshGame ==
    [][(ResetGame \/ config'.boardSize # config.boardSize)
          => /\ score' = 0
             /\ ~gameOver'
             /\ selectedCell' = NoCell
             /\ Cardinality(Occupied(board')) = config'.ballsPerRound]_vars

----------------------------------------------------------------------------
\* C36: in every state of a game the score is ten times the number of balls
\* placed since the last re-initialisation minus the number of balls on
\* the board: balls appear only by placement and disappear only in a
\* scored removal pass.
C36_BallConservation ==
    score = 10 * (placed - Cardinality(Occupied(board)))

\* a removal pass has scored and balls are on the board after the last move
C36_Witness ==
    /\ score > 0
    /\ Len(entries) = 0
    /\ movesLeft = 0
    /\ placed > MinLineLength
    /\ Occupied(board) # {}

----------------------------------------------------------------------------
(* A removal pass and its re-check on arbitrary boards *)

\* GameScene.checkAndRemoveLines on the probed board; call notes the board
\* before the pass and the cells checkAndFindLines returned for it
RemovalPass ==
    /\ call = NoCall
    /\ \E g1 \in {checkAndRemoveLines(Scene, config)} :
          /\ Adopt(g1, config)
          /\ tweens' = Hit(tweens, g1.gone)
    /\ call' = [op |-> "pass", before |-> board,
                result |-> checkAndFindLines(board, config)]
    /\ UNCHANGED <<config, selectedCell, movesLeft>>

NextPass ==
    \/ RemovalPass
    \/ DelayedRecheck
SpecPass == InitOrder /\ [][NextPass]_vars

\* C37: one removing pass reaches the fixpoint: after a pass has removed
\* exactly the cells checkAndFindLines returned, checkAndFindLines returns
\* the empty list for the resulting board, so the delayed re-check removes
\* nothing and schedules no further re-check.
C37_Fixpoint ==
    call.op = "pass" =>
        /\ board = [p \in DOMAIN call.before |->
                       IF p \in Range(call.result) THEN EmptyCell
                       ELSE call.before[p]]
        /\ checkAndFindLines(board, config) = <<>>
        /\ delayedCalls <= (IF call.result = <<>> THEN 0 ELSE 1)

\* the re-check of a pass that removed a run has fired and balls remain
C37_Witness ==
    /\ call.op = "pass"
    /\ Len(call.result) >= config.minLineLength
    /\ delayedCalls = 0
    /\ Occupied(board) # {}
====
